---- MODULE Spec2Model ----
(***************************************************************************)
(* Model of mbgl::style::PaintPropertyBinders                              *)
(* (src/mbgl/style/paint_property_binder.hpp).                             *)
(*                                                                         *)
(* One PaintPropertyBinders object over the paint properties Ps is         *)
(* modelled.  Its four public operations are the actions; the object's     *)
(* construction is Init.  Zoom levels are stored in half-levels            *)
(* (zoom 12.5 is 25), attribute values are integers, interpolation         *)
(* factors are exact fractions [num, den].                                 *)
(***************************************************************************)
EXTENDS Integers, Sequences, FiniteSets, TLC

VARIABLES
    properties,   \* the EvaluatedProperties the set was constructed from
    z,            \* the zoom the set was constructed at
    binders,      \* PaintPropertyBinders::binders, one binder per property
    context,      \* the gl::Context handed to upload
    call,         \* the last operation called, with its arguments
    ret,          \* what that operation returned
    threads       \* where the tile worker and the render thread stand

vars == << properties, z, binders, context, call, ret, threads >>

(***************************************************************************)
(* Bounds and input sets                                                   *)
(***************************************************************************)

\* gl::Context stops handing out buffers after this many
MaxBuffers == 2

\* TypeList<Ps...>, in declared order
PsOrder == << "color", "width" >>
Ps == { PsOrder[i] : i \in 1..Len(PsOrder) }

\* GeometryTileFeature: the attribute the functions read, or no such attribute
Features == { [has |-> TRUE, size |-> 3],
              [has |-> TRUE, size |-> 5],
              [has |-> FALSE, size |-> 0] }

\* std::size_t length arguments of populateVertexVectors
Lengths == { 0, 4, 10 }

\* zoom levels 8, 10, 12.5, 15 and 17, in half-levels
Zooms == { 16, 20, 25, 30, 34 }

\* zoom levels the set is constructed at
CtorZooms == { 25, 34 }

(***************************************************************************)
(* Style values                                                            *)
(***************************************************************************)

\* SourceFunction<T>: f(feature) = feature.size * mul
SourceFunctions == { [mul |-> 2] }

\* CompositeFunction<T>: zoom stops 10, 15, 20, each with its inner stops,
\* and the zoom-interpolation base
CompositeStops == [s \in {20, 30, 40} |->
                     IF s = 20 THEN [mul |-> 1]
                     ELSE IF s = 30 THEN [mul |-> 2] ELSE [mul |-> 3]]
CompositeFunctions == { [stops |-> CompositeStops, base |-> b] : b \in {1, 4} }

\* PropertyValue<T> = variant<T, SourceFunction<T>, CompositeFunction<T>>
ConstantValue(c) == [kind |-> "constant", constant |-> c]
SourceValue(f) == [kind |-> "source", function |-> f]
CompositeValue(f) == [kind |-> "composite", function |-> f]

PropertyValues ==
    { ConstantValue(2) }
    \cup { SourceValue(f) : f \in SourceFunctions }
    \cup { CompositeValue(f) : f \in CompositeFunctions }

\* the live values handed to attributeBindings
CurrentValues ==
    { ConstantValue(7) } \cup { SourceValue(f) : f \in SourceFunctions }

\* PaintProperty::defaultValue()
PaintPropertyDefaultValue == 1

\* PossiblyEvaluatedPropertyValue<T>::isConstant
isConstant(value) == value.kind = "constant"

\* PossiblyEvaluatedPropertyValue<T>::constantOr
constantOr(value, t) == IF isConstant(value) THEN value.constant ELSE t

\* SourceFunction<T>::evaluate(feature, defaultValue)
SourceFunctionEvaluate(function, feature, defaultValue) ==
    IF feature.has THEN feature.size * function.mul ELSE defaultValue

Max(S) == CHOOSE m \in S : \A s \in S : s <= m
Min(S) == CHOOSE m \in S : \A s \in S : m <= s

\* CompositeFunction<T>::coveringRanges(zoom): the zoom stops bracketing
\* zoom, and the inner stops at those two zoom stops
coveringRangesOf(function, zoom) ==
    LET stops == DOMAIN function.stops
        below == { s \in stops : s <= zoom }
        above == { s \in stops : s > zoom }
        lo == IF below # {} THEN Max(below) ELSE Min(stops)
        hi == IF above # {} THEN Min(above) ELSE Max(stops)
    IN  << [min |-> lo, max |-> hi],
           [min |-> function.stops[lo], max |-> function.stops[hi]] >>

\* CompositeFunction<T>::evaluate(Range<InnerStops>, feature, defaultValue)
CompositeFunctionEvaluate(function, innerStops, feature, defaultValue) ==
    [min |-> SourceFunctionEvaluate(innerStops.min, feature, defaultValue),
     max |-> SourceFunctionEvaluate(innerStops.max, feature, defaultValue)]

(***************************************************************************)
(* Attributes, vertices, buffers                                           *)
(***************************************************************************)

\* Attribute::value(T): the value as a one-component attribute value
AttributeValue(val) == << val >>

\* ZoomInterpolatedAttribute<A>::value(min, max): both endpoints packed
ZoomInterpolatedAttributeValue(min, max) == << min, max >>

\* Vertex { value }
Vertex(value) == [a1 |-> value]

\* Attribute::ConstantBinding { value }
ConstantBinding(value) == [kind |-> "constant", value |-> value]

\* Attributes::allVariableBindings(buffer).get<Attribute>()
VariableBinding(buffer) == [kind |-> "variable", buffer |-> buffer]

\* optional<gl::VertexBuffer<Vertex>>, empty
NoBuffer == [present |-> FALSE, id |-> 0, vertices |-> << >>]

\* gl::Context::createVertexBuffer(VertexVector&&): a new buffer holding the
\* vertices; the buffers of one context are numbered as they are created
createVertexBuffer(ctx, vertexVector) ==
    [present |-> TRUE, id |-> ctx.created + 1, vertices |-> vertexVector]

\* what std::move(vertexVector) leaves behind once createVertexBuffer
\* returns: nothing if the context takes the vector over, else the vector
movedFrom(ctx, vertexVector) ==
    IF ctx.consumes THEN << >> ELSE vertexVector

(***************************************************************************)
(* util::interpolationFactor(base, range, z), zooms in half-levels         *)
(***************************************************************************)

RECURSIVE Pow(_, _)
Pow(b, n) == IF n <= 0 THEN 1 ELSE b * Pow(b, n - 1)

\* the square root of a base that is a perfect square
Root(base) == CHOOSE r \in 1..base : r * r = base

\* base ^ (k / 2) as a fraction, k in half-levels
PowHalf(base, k) ==
    IF k >= 0 THEN [num |-> Pow(Root(base), k), den |-> 1]
    ELSE [num |-> 1, den |-> Pow(Root(base), 0 - k)]

interpolationFactorOf(base, range, zoom) ==
    LET zoomDiff == range.max - range.min
        zoomProgress == zoom - range.min
        p == PowHalf(base, zoomProgress)
        d == PowHalf(base, zoomDiff)
    IN  IF base = 1
        THEN [num |-> zoomProgress, den |-> zoomDiff]
        ELSE [num |-> (p.num - p.den) * d.den,
              den |-> (d.num - d.den) * p.den]

\* fractions with non-negative denominators
FracEq(a, b) == a.num * b.den = b.num * a.den
FracLeq(a, b) == a.num * b.den <= b.num * a.den
Zero == [num |-> 0, den |-> 1]
One == [num |-> 1, den |-> 1]

(***************************************************************************)
(* ConstantPaintPropertyBinder                                             *)
(***************************************************************************)

ConstantPaintPropertyBinder(constant_) ==
    [which |-> "Constant", constant |-> constant_]

ConstantPopulateVertexVector(b, feature, length) == b

ConstantUpload(b, ctx) == b

\* as ConstantAttributeBinding, but ignoring the live value
ConstantAttributeBindingStored(b, currentValue) ==
    ConstantBinding(AttributeValue(b.constant))

ConstantAttributeBinding(b, currentValue) ==
    ConstantBinding(AttributeValue(constantOr(currentValue, b.constant)))

ConstantInterpolationFactor(b, currentZoom) == Zero

(***************************************************************************)
(* SourceFunctionPaintPropertyBinder                                       *)
(***************************************************************************)

SourceFunctionPaintPropertyBinder(function_, defaultValue_) ==
    [which |-> "SourceFunction",
     function |-> function_,
     defaultValue |-> defaultValue_,
     vertexVector |-> << >>,
     vertexBuffer |-> NoBuffer]

\* for (i = vertexVector.vertexSize(); i < length; ++i) emplace_back(vertex)
RECURSIVE EmplaceUpTo(_, _, _)
EmplaceUpTo(vertexVector, vertex, length) ==
    IF Len(vertexVector) < length
    THEN EmplaceUpTo(Append(vertexVector, vertex), vertex, length)
    ELSE vertexVector

\* as SourcePopulateVertexVector, but with the loop running to i <= length
SourcePopulateVertexVectorInclusive(b, feature, length) ==
    LET val == SourceFunctionEvaluate(b.function, feature, b.defaultValue)
        value == AttributeValue(val)
    IN  [b EXCEPT !.vertexVector = EmplaceUpTo(@, Vertex(value), length + 1)]

\* as SourcePopulateVertexVector, but giving up on a feature that cannot be
\* evaluated
SourcePopulateVertexVectorSkipFailed(b, feature, length) ==
    IF ~feature.has THEN b
    ELSE LET val == SourceFunctionEvaluate(b.function, feature, b.defaultValue)
             value == AttributeValue(val)
         IN  [b EXCEPT !.vertexVector = EmplaceUpTo(@, Vertex(value), length)]

SourcePopulateVertexVector(b, feature, length) ==
    LET val == SourceFunctionEvaluate(b.function, feature, b.defaultValue)
        value == AttributeValue(val)
    IN  [b EXCEPT !.vertexVector = EmplaceUpTo(@, Vertex(value), length)]

SourceUpload(b, ctx) ==
    [b EXCEPT !.vertexBuffer = createVertexBuffer(ctx, b.vertexVector),
              !.vertexVector = movedFrom(ctx, @)]

\* as SourceInterpolationFactor, but returning the zoom it is given
SourceInterpolationFactorZoom(b, currentZoom) ==
    [num |-> currentZoom, den |-> 1]

SourceInterpolationFactor(b, currentZoom) == Zero

(***************************************************************************)
(* CompositeFunctionPaintPropertyBinder                                    *)
(***************************************************************************)

CompositeFunctionPaintPropertyBinder(function_, zoom, defaultValue_) ==
    [which |-> "Composite",
     function |-> function_,
     defaultValue |-> defaultValue_,
     coveringRanges |-> coveringRangesOf(function_, zoom),
     vertexVector |-> << >>,
     vertexBuffer |-> NoBuffer]

\* as CompositePopulateVertexVector, but resizing the stream to length
CompositePopulateVertexVectorResize(b, feature, length) ==
    LET range == CompositeFunctionEvaluate(b.function, b.coveringRanges[2],
                                           feature, b.defaultValue)
        minMax == ZoomInterpolatedAttributeValue(range.min, range.max)
    IN  [b EXCEPT !.vertexVector =
           IF length < Len(@) THEN SubSeq(@, 1, length)
           ELSE EmplaceUpTo(@, Vertex(minMax), length)]

\* as CompositePopulateVertexVector, but packing the lower endpoint twice
CompositePopulateVertexVectorMinMin(b, feature, length) ==
    LET range == CompositeFunctionEvaluate(b.function, b.coveringRanges[2],
                                           feature, b.defaultValue)
        minMax == ZoomInterpolatedAttributeValue(range.min, range.min)
    IN  [b EXCEPT !.vertexVector = EmplaceUpTo(@, Vertex(minMax), length)]

CompositePopulateVertexVector(b, feature, length) ==
    LET range == CompositeFunctionEvaluate(b.function, b.coveringRanges[2],
                                           feature, b.defaultValue)
        minMax == ZoomInterpolatedAttributeValue(range.min, range.max)
    IN  [b EXCEPT !.vertexVector = EmplaceUpTo(@, Vertex(minMax), length)]

CompositeUpload(b, ctx) ==
    [b EXCEPT !.vertexBuffer = createVertexBuffer(ctx, b.vertexVector),
              !.vertexVector = movedFrom(ctx, @)]

\* as CompositeInterpolationFactor, but clamped to the covering range
CompositeInterpolationFactorClamped(b, currentZoom) ==
    IF currentZoom < b.coveringRanges[1].min THEN Zero
    ELSE IF currentZoom > b.coveringRanges[1].max THEN One
    ELSE interpolationFactorOf(1, b.coveringRanges[1], currentZoom)

\* as CompositeInterpolationFactor, but bracketing the current zoom anew
CompositeInterpolationFactorRebracket(b, currentZoom) ==
    interpolationFactorOf(1, coveringRangesOf(b.function, currentZoom)[1],
                          currentZoom)

CompositeInterpolationFactor(b, currentZoom) ==
    interpolationFactorOf(1, b.coveringRanges[1], currentZoom)

(***************************************************************************)
(* *vertexBuffer on an empty optional is undefined: the binding then       *)
(* refers to whatever the storage of the optional holds                    *)
(***************************************************************************)

UndefinedBuffers(b) ==
    { [present |-> FALSE, id |-> 0, vertices |-> << >>],
      [present |-> FALSE, id |-> 0, vertices |-> b.vertexVector] }

Dereference(b) ==
    IF b.vertexBuffer.present THEN { b.vertexBuffer } ELSE UndefinedBuffers(b)

\* as SourceAttributeBinding, but preferring the buffer once it is uploaded
SourceAttributeBindingBufferFirst(b, currentValue) ==
    IF isConstant(currentValue) /\ ~b.vertexBuffer.present
    THEN { ConstantBinding(AttributeValue(currentValue.constant)) }
    ELSE { VariableBinding(buffer) : buffer \in Dereference(b) }

\* the bindings a call may return
SourceAttributeBinding(b, currentValue) ==
    IF isConstant(currentValue)
    THEN { ConstantBinding(AttributeValue(currentValue.constant)) }
    ELSE { VariableBinding(buffer) : buffer \in Dereference(b) }

CompositeAttributeBinding(b, currentValue) ==
    IF isConstant(currentValue)
    THEN LET val == currentValue.constant
         IN  { ConstantBinding(ZoomInterpolatedAttributeValue(val, val)) }
    ELSE { VariableBinding(buffer) : buffer \in Dereference(b) }

(***************************************************************************)
(* PaintPropertyBinder: the variant of the three binders                   *)
(***************************************************************************)

\* as PaintPropertyBinder, but a source function bound as its default constant
PaintPropertyBinderSourceAsConstant(value, zoom) ==
    CASE value.kind = "constant" ->
           ConstantPaintPropertyBinder(value.constant)
      [] value.kind = "source" ->
           ConstantPaintPropertyBinder(PaintPropertyDefaultValue)
      [] value.kind = "composite" ->
           CompositeFunctionPaintPropertyBinder(value.function, zoom,
                                                PaintPropertyDefaultValue)

PaintPropertyBinder(value, zoom) ==
    CASE value.kind = "constant" ->
           ConstantPaintPropertyBinder(value.constant)
      [] value.kind = "source" ->
           SourceFunctionPaintPropertyBinder(value.function,
                                             PaintPropertyDefaultValue)
      [] value.kind = "composite" ->
           CompositeFunctionPaintPropertyBinder(value.function, zoom,
                                                PaintPropertyDefaultValue)

\* as populateVertexVector, but not forwarding to a Composite binder
populateVertexVectorNotComposite(b, feature, length) ==
    CASE b.which = "Constant" -> ConstantPopulateVertexVector(b, feature, length)
      [] b.which = "SourceFunction" -> SourcePopulateVertexVector(b, feature, length)
      [] b.which = "Composite" -> b

populateVertexVector(b, feature, length) ==
    CASE b.which = "Constant" -> ConstantPopulateVertexVector(b, feature, length)
      [] b.which = "SourceFunction" -> SourcePopulateVertexVector(b, feature, length)
      [] b.which = "Composite" -> CompositePopulateVertexVector(b, feature, length)

upload(b, ctx) ==
    CASE b.which = "Constant" -> ConstantUpload(b, ctx)
      [] b.which = "SourceFunction" -> SourceUpload(b, ctx)
      [] b.which = "Composite" -> CompositeUpload(b, ctx)

attributeBinding(b, currentValue) ==
    CASE b.which = "Constant" -> { ConstantAttributeBinding(b, currentValue) }
      [] b.which = "SourceFunction" -> SourceAttributeBinding(b, currentValue)
      [] b.which = "Composite" -> CompositeAttributeBinding(b, currentValue)

\* InterpolationUniformValue { factor }
interpolationUniformValue(b, currentZoom) ==
    [t |-> CASE b.which = "Constant" -> ConstantInterpolationFactor(b, currentZoom)
             [] b.which = "SourceFunction" -> SourceInterpolationFactor(b, currentZoom)
             [] b.which = "Composite" -> CompositeInterpolationFactor(b, currentZoom)]

\* a binder that owns a vertex stream
IsDataDriven(b) == b.which \in {"SourceFunction", "Composite"}

(***************************************************************************)
(* PaintPropertyBinders                                                    *)
(***************************************************************************)

\* the context after a binder's upload
contextAfter(b, ctx) ==
    IF IsDataDriven(b) THEN [ctx EXCEPT !.created = @ + 1] ELSE ctx

\* binders.get<Ps>().upload(context)..., in declared order: the binders and
\* the context after the first n properties were uploaded
RECURSIVE UploadFirst(_, _, _)
UploadFirst(n, bs, ctx) ==
    IF n = 0 THEN [binders |-> bs, context |-> ctx]
    ELSE LET before == UploadFirst(n - 1, bs, ctx)
             p == PsOrder[n]
         IN  [binders |-> [before.binders EXCEPT
                             ![p] = upload(@, before.context)],
              context |-> contextAfter(before.binders[p], before.context)]

Void == << >>

\* the state a PaintPropertyBinders(properties, z) constructor leaves
Constructed ==
    /\ properties \in [Ps -> PropertyValues]
    /\ z \in CtorZooms
    /\ binders = [p \in Ps |-> PaintPropertyBinder(properties[p], z)]
    /\ context \in { [created |-> 0, consumes |-> c] : c \in BOOLEAN }
    /\ call = [op |-> "PaintPropertyBinders"]
    /\ ret = Void

\* the set used from one thread, through any sequence of calls
NoThreads == [worker |-> "none", args |-> << >>,
              handedOff |-> FALSE, render |-> "none"]

Init ==
    /\ Constructed
    /\ threads = NoThreads

\* the body of populateVertexVectors
PopulateBody(feature, length) ==
    /\ binders' = [p \in Ps |-> populateVertexVector(binders[p], feature, length)]
    /\ call' = [op |-> "populateVertexVectors", feature |-> feature, length |-> length]
    /\ ret' = Void
    /\ UNCHANGED << properties, z, context >>

PopulateVertexVectors(feature, length) ==
    /\ PopulateBody(feature, length)
    /\ UNCHANGED threads

\* the body of upload
UploadBody ==
    /\ context.created + Cardinality({ p \in Ps : IsDataDriven(binders[p]) })
         <= MaxBuffers
    /\ LET after == UploadFirst(Len(PsOrder), binders, context)
       IN  /\ binders' = after.binders
           /\ context' = after.context
    /\ call' = [op |-> "upload"]
    /\ ret' = Void
    /\ UNCHANGED << properties, z >>

Upload ==
    /\ UploadBody
    /\ UNCHANGED threads

AttributeBindings(currentProperties) ==
    /\ \E bindings \in [Ps -> UNION { attributeBinding(binders[p], currentProperties[p]) : p \in Ps }] :
         /\ \A p \in Ps : bindings[p] \in attributeBinding(binders[p], currentProperties[p])
         /\ ret' = bindings
    /\ call' = [op |-> "attributeBindings", currentProperties |-> currentProperties]
    /\ UNCHANGED << properties, z, binders, context, threads >>

UniformValues(currentZoom) ==
    /\ ret' = [p \in Ps |-> interpolationUniformValue(binders[p], currentZoom)]
    /\ call' = [op |-> "uniformValues", currentZoom |-> currentZoom]
    /\ UNCHANGED << properties, z, binders, context, threads >>

Next ==
    \/ \E feature \in Features, length \in Lengths :
         PopulateVertexVectors(feature, length)
    \/ Upload
    \/ \E currentProperties \in [Ps -> CurrentValues] :
         AttributeBindings(currentProperties)
    \/ \E currentZoom \in Zooms : UniformValues(currentZoom)

Spec == Init /\ [][Next]_vars

TypeOK ==
    /\ \A p \in Ps : binders[p].which \in {"Constant", "SourceFunction", "Composite"}
    /\ context.created \in 0..(MaxBuffers + Len(PsOrder))

(***************************************************************************)
(* The set on the tile-processing path: a worker thread populates it, hands *)
(* the tile over, and the render thread uploads it.  A thread is inside a   *)
(* call, and accessing the vertex vectors, between the call's two steps.    *)
(***************************************************************************)

InitThreads ==
    /\ Constructed
    /\ threads = [worker |-> "idle", args |-> << >>,
                  handedOff |-> FALSE, render |-> "waiting"]

WorkerBeginPopulate(feature, length) ==
    /\ threads.worker = "idle"
    /\ threads' = [threads EXCEPT !.worker = "populating",
                                  !.args = << feature, length >>]
    /\ UNCHANGED << properties, z, binders, context, call, ret >>

WorkerEndPopulate ==
    /\ threads.worker = "populating"
    /\ PopulateBody(threads.args[1], threads.args[2])
    /\ threads' = [threads EXCEPT !.worker = "idle", !.args = << >>]

WorkerHandOff ==
    /\ threads.worker = "idle"
    /\ threads' = [threads EXCEPT !.worker = "done", !.handedOff = TRUE]
    /\ UNCHANGED << properties, z, binders, context, call, ret >>

\* as RenderBeginUpload, but not waiting for the tile to be handed over
RenderBeginUploadEarly ==
    /\ threads.render = "waiting"
    /\ threads' = [threads EXCEPT !.render = "uploading"]
    /\ UNCHANGED << properties, z, binders, context, call, ret >>

RenderBeginUpload ==
    /\ threads.render = "waiting"
    /\ threads.handedOff
    /\ threads' = [threads EXCEPT !.render = "uploading"]
    /\ UNCHANGED << properties, z, binders, context, call, ret >>

RenderEndUpload ==
    /\ threads.render = "uploading"
    /\ UploadBody
    /\ threads' = [threads EXCEPT !.render = "uploaded"]

NextThreads ==
    \/ \E feature \in Features, length \in Lengths :
         WorkerBeginPopulate(feature, length)
    \/ WorkerEndPopulate
    \/ WorkerHandOff
    \/ RenderBeginUpload
    \/ RenderEndUpload

SpecThreads == InitThreads /\ [][NextThreads]_vars

(***************************************************************************)
(* Properties                                                              *)
(***************************************************************************)

Populated == call.op = "populateVertexVectors"
Populating == call'.op = "populateVertexVectors"
Bound == call.op = "attributeBindings"
Interpolated == call.op = "uniformValues"

Repeat(vertex, n) == [i \in 1..n |-> vertex]

\* the number of vertices a call with the given length adds to a stream
Missing(vertexVector, length) ==
    IF length > Len(vertexVector) THEN length - Len(vertexVector) ELSE 0

IsPrefix(s, t) == Len(s) <= Len(t) /\ SubSeq(t, 1, Len(s)) = s

Uploaded(b) == b.vertexBuffer.present

\* C1: populateVertexVector(feature, targetLength) on a Source-function
\* binder appends exactly targetLength - priorLength vertices (none when
\* targetLength <= priorLength), each carrying the function's value for the
\* feature, or the property default when the feature cannot be evaluated.
C1_SourcePopulateAppends ==
    [][Populating =>
         \A p \in Ps : binders[p].which = "SourceFunction" =>
            LET feature == call'.feature
                val == IF feature.has
                       THEN feature.size * properties[p].function.mul
                       ELSE PaintPropertyDefaultValue
                n == Missing(binders[p].vertexVector, call'.length)
            IN  binders'[p].vertexVector =
                  binders[p].vertexVector \o Repeat(Vertex(<< val >>), n)]_vars

\* features of sizes 3 and 5 populated to lengths 4 and 10 under size * 2
C1_Witness ==
    /\ Populated /\ call.feature.size = 5 /\ call.length = 10
    /\ \E p \in Ps :
         /\ binders[p].which = "SourceFunction"
         /\ binders[p].vertexVector =
              [i \in 1..10 |-> IF i <= 4 THEN Vertex(<< 6 >>) ELSE Vertex(<< 10 >>)]

\* C2: once a Source-function or Composite binder has an uploaded buffer, no
\* later upload or populateVertexVector call replaces that buffer or changes
\* the vertex data in it.
C2_BufferCreatedOnce ==
    [][\A p \in Ps :
         IsDataDriven(binders[p]) /\ Uploaded(binders[p]) =>
            binders'[p].vertexBuffer = binders[p].vertexBuffer]_vars

\* C3: a Constant binder is left unchanged by every operation, and its
\* attributeBinding is the broadcast of the live value's constant, or of the
\* constant the binder was built from when the live value is not constant.
C3_ConstantBinder ==
    /\ [][\A p \in Ps : binders[p].which = "Constant" =>
            binders'[p] = binders[p]]_vars
    /\ [](Bound =>
            \A p \in Ps : binders[p].which = "Constant" =>
               LET currentValue == call.currentProperties[p]
               IN  ret[p] = [kind |-> "constant",
                             value |-> << IF currentValue.kind = "constant"
                                          THEN currentValue.constant
                                          ELSE properties[p].constant >>])

\* a Constant binder asked, after an upload, to bind a live value that is
\* not constant
C3_Witness ==
    /\ Bound /\ context.created > 0
    /\ \E p \in Ps :
         /\ binders[p].which = "Constant"
         /\ call.currentProperties[p].kind # "constant"
         /\ ret[p].kind = "constant"

\* C4: attributeBinding on a Source-function or Composite binder broadcasts
\* the live value's constant (twice, for Composite) whenever the live value
\* is constant, and otherwise refers to the uploaded buffer, whatever the
\* binder holds.
C4_BindingFollowsLiveValue ==
    Bound =>
       \A p \in Ps : IsDataDriven(binders[p]) =>
          LET currentValue == call.currentProperties[p]
              c == currentValue.constant
          IN  IF currentValue.kind = "constant"
              THEN ret[p] = [kind |-> "constant",
                             value |-> IF binders[p].which = "Composite"
                                       THEN << c, c >> ELSE << c >>]
              ELSE /\ ret[p].kind = "variable"
                   /\ Uploaded(binders[p]) =>
                        ret[p].buffer = binders[p].vertexBuffer

\* both branches taken on uploaded binders with vertices in the buffer
C4_Witness ==
    /\ Bound
    /\ \E p, q \in Ps :
         /\ binders[p].which = "SourceFunction" /\ Uploaded(binders[p])
         /\ Len(binders[p].vertexBuffer.vertices) > 0
         /\ call.currentProperties[p].kind = "constant"
         /\ ret[p].kind = "constant"
         /\ binders[q].which = "Composite" /\ Uploaded(binders[q])
         /\ call.currentProperties[q].kind # "constant"
         /\ ret[q].kind = "variable"

\* a Composite binder's bracketing zoom stops
ZoomRange(b) == b.coveringRanges[1]

C6_FactorUsesFunctionBase ==
    Interpolated =>
       \A p \in Ps : binders[p].which = "Composite" =>
          FracEq(ret[p].t,
                 interpolationFactorOf(binders[p].function.base,
                                       ZoomRange(binders[p]),
                                       call.currentZoom))

\* the binder PaintPropertyBinder builds for each variant of PropertyValue
StrategyOf(value) ==
    CASE value.kind = "constant" -> "Constant"
      [] value.kind = "source" -> "SourceFunction"
      [] value.kind = "composite" -> "Composite"

\* C7: each property's binder is the strategy its PropertyValue selected at
\* construction, whatever the other properties selected, and no operation
\* changes which strategy a binder is.
C7_StrategyFixed ==
    /\ [](\A p \in Ps : binders[p].which = StrategyOf(properties[p]))
    /\ [][\A p \in Ps : binders'[p].which = binders[p].which]_vars

\* a set mixing two strategies, after population and upload
C7_Witness ==
    /\ Interpolated
    /\ \E p, q \in Ps :
         /\ binders[p].which = "SourceFunction" /\ properties[p].kind = "source"
         /\ binders[q].which = "Composite" /\ properties[q].kind = "composite"
         /\ Uploaded(binders[p]) /\ Uploaded(binders[q])
         /\ Len(binders[p].vertexBuffer.vertices) = 10

\* C8: before upload, populateVertexVector on a Source-function or Composite
\* binder keeps the stream it finds as a prefix of the stream it leaves, and
\* leaves it max(priorLength, targetLength) long.
C8_StreamOnlyGrows ==
    [][Populating =>
         \A p \in Ps :
            (IsDataDriven(binders[p]) /\ ~Uploaded(binders[p])) =>
               LET prior == binders[p].vertexVector
                   after == binders'[p].vertexVector
               IN  /\ IsPrefix(prior, after)
                   /\ Len(after) = IF Len(prior) >= call'.length
                                   THEN Len(prior) ELSE call'.length]_vars

\* a call with a target length below the length of both kinds of stream
C8_Witness ==
    /\ Populated /\ call.length = 4
    /\ \E p, q \in Ps :
         /\ binders[p].which = "SourceFunction" /\ ~Uploaded(binders[p])
         /\ binders[q].which = "Composite" /\ ~Uploaded(binders[q])
         /\ Len(binders[p].vertexVector) = 10
         /\ Len(binders[q].vertexVector) = 10

\* the (min, max) pair of a feature at the inner stops of the covering range
\* of the construction zoom
PairAtConstruction(p, feature) ==
    LET function == properties[p].function
        zoomRange == coveringRangesOf(function, z)[1]
        at(stop) == IF feature.has
                    THEN feature.size * function.stops[stop].mul
                    ELSE PaintPropertyDefaultValue
    IN  << at(zoomRange.min), at(zoomRange.max) >>

\* C9: populateVertexVector(feature, targetLength) on a Composite binder
\* appends, up to targetLength, copies of one vertex carrying the feature's
\* (min, max) pair at the inner stops of the covering range of construction.
C9_CompositePopulatePacksRange ==
    [][Populating =>
         \A p \in Ps : binders[p].which = "Composite" =>
            LET n == Missing(binders[p].vertexVector, call'.length)
                minMax == PairAtConstruction(p, call'.feature)
            IN  binders'[p].vertexVector =
                  binders[p].vertexVector \o Repeat(Vertex(minMax), n)]_vars

\* features of sizes 3 and 5 populated to lengths 4 and 10 between the stops
\* 15 and 20, whose inner stops double and triple the size
C9_Witness ==
    /\ Populated /\ call.feature.size = 5 /\ call.length = 10 /\ z = 34
    /\ \E p \in Ps :
         /\ binders[p].which = "Composite"
         /\ binders[p].vertexVector =
              [i \in 1..10 |-> IF i <= 4 THEN Vertex(<< 6, 9 >>)
                               ELSE Vertex(<< 10, 15 >>)]

\* C10: a Composite binder's covering range is always the one of the
\* construction zoom, and interpolationFactor measures every zoom, also one
\* outside that range, against it.
C10_CoveringRangeFixed ==
    \A p \in Ps : binders[p].which = "Composite" =>
       /\ binders[p].coveringRanges = coveringRangesOf(properties[p].function, z)
       /\ Interpolated =>
            ret[p].t = [num |-> call.currentZoom
                                  - coveringRangesOf(properties[p].function, z)[1].min,
                        den |-> coveringRangesOf(properties[p].function, z)[1].max
                                  - coveringRangesOf(properties[p].function, z)[1].min]

\* zoom 17 asked of an uploaded binder built at zoom 12.5
C10_Witness ==
    /\ Interpolated /\ call.currentZoom = 34 /\ z = 25
    /\ \E p \in Ps :
         /\ binders[p].which = "Composite" /\ Uploaded(binders[p])
         /\ Len(binders[p].vertexBuffer.vertices) > 0
         /\ ret[p].t = [num |-> 14, den |-> 10]

\* the vertex a binder of property p writes for a feature that cannot be
\* evaluated
DefaultVertex(p) ==
    IF binders[p].which = "Composite"
    THEN Vertex(<< PaintPropertyDefaultValue, PaintPropertyDefaultValue >>)
    ELSE Vertex(<< PaintPropertyDefaultValue >>)

\* C11: populateVertexVector for a feature whose evaluation fails is always
\* possible and completes: it extends a Source-function or Composite stream
\* to targetLength with vertices carrying PaintProperty::defaultValue(), and
\* a later call for a feature that evaluates appends that feature's value.
C11_FailureWritesDefault ==
    /\ [](\A feature \in Features, length \in Lengths :
            ENABLED PopulateVertexVectors(feature, length))
    /\ [][(Populating /\ ~call'.feature.has) =>
            \A p \in Ps : IsDataDriven(binders[p]) =>
               /\ binders'[p].vertexVector =
                    binders[p].vertexVector
                      \o Repeat(DefaultVertex(p),
                                Missing(binders[p].vertexVector, call'.length))
               /\ Len(binders'[p].vertexVector) >= call'.length]_vars
    /\ [][(Populated /\ ~call.feature.has /\ Populating /\ call'.feature.has) =>
            \A p \in Ps : binders[p].which = "SourceFunction" =>
               binders'[p].vertexVector =
                 binders[p].vertexVector
                   \o Repeat(Vertex(<< call'.feature.size
                                         * properties[p].function.mul >>),
                             Missing(binders[p].vertexVector, call'.length))]_vars

\* a feature without the attribute populated to length 4, then a feature of
\* size 5 to length 10, on a Source-function and a Composite binder
C11_Witness ==
    /\ Populated /\ call.feature.has /\ call.feature.size = 5 /\ call.length = 10
    /\ z = 25
    /\ \E p, q \in Ps :
         /\ binders[p].which = "SourceFunction"
         /\ binders[p].vertexVector =
              [i \in 1..10 |-> IF i <= 4 THEN Vertex(<< 1 >>) ELSE Vertex(<< 10 >>)]
         /\ binders[q].which = "Composite"
         /\ binders[q].vertexVector =
              [i \in 1..10 |-> IF i <= 4 THEN Vertex(<< 1, 1 >>)
                               ELSE Vertex(<< 5, 10 >>)]

\* C13: interpolationFactor of a Constant or Source-function binder is 0 for
\* every zoom in every state, and uniformValues reports one value for each
\* declared property, 0 for each such binder.
C13_NoInterpolation ==
    /\ \A p \in Ps : binders[p].which \in {"Constant", "SourceFunction"} =>
          \A currentZoom \in Zooms :
             LET t == interpolationUniformValue(binders[p], currentZoom).t
             IN  t.num = 0 /\ t.den # 0
    /\ Interpolated =>
          /\ DOMAIN ret = Ps
          /\ \A p \in Ps : binders[p].which \in {"Constant", "SourceFunction"} =>
                ret[p].t.num = 0 /\ ret[p].t.den # 0

\* uniformValues asked at zoom 17 of an uploaded set of a Source-function
\* binder and a Composite binder
C13_Witness ==
    /\ Interpolated /\ call.currentZoom = 34
    /\ \E p, q \in Ps :
         /\ binders[p].which = "SourceFunction" /\ Uploaded(binders[p])
         /\ Len(binders[p].vertexBuffer.vertices) > 0
         /\ ret[p].t.num = 0
         /\ binders[q].which = "Composite" /\ ret[q].t.num # 0

Querying == call'.op \in {"attributeBindings", "uniformValues"}

\* C14: attributeBindings and uniformValues leave the binders, the values
\* and zoom they were built from and the context unchanged, and a call
\* repeated with the same arguments in the same state returns what the call
\* before it returned.
C14_QueriesPure ==
    /\ [][Querying =>
            UNCHANGED << properties, z, binders, context >>]_vars
    /\ [][(Querying /\ call' = call /\ binders' = binders) =>
            ret' = ret]_vars

\* C15: whenever attributeBinding refers a live value that is not constant
\* to the buffer of a Source-function or Composite binder, that binder has an
\* uploaded buffer.
C15_BufferExistsWhenBound ==
    Bound =>
       \A p \in Ps :
          (IsDataDriven(binders[p])
             /\ call.currentProperties[p].kind # "constant") =>
             Uploaded(binders[p])

\* C16: before upload, all Source-function and Composite binders of the set
\* hold vertex streams of one length, which each populateVertexVectors call
\* raises to its length argument unless it is already longer, and Constant
\* binders hold no stream.
C16_StreamsInStep ==
    /\ [](\A p, q \in Ps :
            (IsDataDriven(binders[p]) /\ IsDataDriven(binders[q])
               /\ ~Uploaded(binders[p]) /\ ~Uploaded(binders[q])) =>
               Len(binders[p].vertexVector) = Len(binders[q].vertexVector))
    /\ [](\A p \in Ps : binders[p].which = "Constant" =>
            DOMAIN binders[p] = {"which", "constant"})
    /\ [][Populating =>
            \A p \in Ps :
               (IsDataDriven(binders[p]) /\ ~Uploaded(binders[p])) =>
                  Len(binders'[p].vertexVector) =
                    IF call'.length > Len(binders[p].vertexVector)
                    THEN call'.length ELSE Len(binders[p].vertexVector)]_vars

\* a Source-function and a Composite binder populated to length 10 and then
\* asked for length 4
C16_Witness ==
    /\ Populated /\ call.length = 4
    /\ \E p, q \in Ps :
         /\ binders[p].which = "SourceFunction" /\ ~Uploaded(binders[p])
         /\ binders[q].which = "Composite" /\ ~Uploaded(binders[q])
         /\ Len(binders[p].vertexVector) = 10
         /\ Len(binders[q].vertexVector) = 10
         /\ binders[p].vertexVector[1] # binders[p].vertexVector[10]

====
